---- MODULE Spec2Model ----
(***************************************************************************)
(* Model of neo4j_brain_control.py: a command-line client that sends one   *)
(* HTTP request (activate / reset / status) to a visualisation server and  *)
(* prints a summary of the answer.                                         *)
(*                                                                         *)
(* Python strings are modelled as sequences of one-character strings, so   *)
(* that str.split and str.join are computed and not assumed.  JSON values  *)
(* are tagged records.  The console is the sequence `out' of printed       *)
(* lines, each a record whose field k names the print statement.           *)
(***************************************************************************)
EXTENDS Integers, Sequences, FiniteSets, TLC

\* Bounds of the model.
MaxTokLen == 3   \* longest node token drawn for the parsing specification
MaxTokens == 2   \* most node tokens after --nodes in the parsing specification
MaxActive == 2   \* longest activeNodes list a response carries

DEFAULT_SERVER_URL == "http://localhost:3000/api/brain"

SeqsUpTo(S, n) == UNION {[1..k -> S] : k \in 0..n}

(***************************************************************************)
(* Token parsing of the 'activar' command (lines 138-141).                 *)
(***************************************************************************)

\* str.split(sep) with an explicit one-character separator: the pieces
\* between the separators, empty pieces kept, always at least one piece.
RECURSIVE split(_, _)
split(s, sep) ==
    IF \A j \in 1..Len(s) : s[j] # sep
    THEN <<s>>
    ELSE LET p == CHOOSE j \in 1..Len(s) :
                      s[j] = sep /\ \A q \in 1..(j - 1) : s[q] # sep
         IN  <<SubSeq(s, 1, p - 1)>> \o split(SubSeq(s, p + 1, Len(s)), sep)

\* sep.join(parts)
RECURSIVE join(_, _)
join(sep, parts) ==
    IF parts = <<>> THEN <<>>
    ELSE IF Len(parts) = 1 THEN parts[1]
    ELSE parts[1] \o sep \o join(sep, Tail(parts))

\* A strict two-name unpacking `node_id, name = parts': fails unless there
\* are exactly two parts.
UnpackStrict(parts) ==
    [ok        |-> Len(parts) = 2,
     node_id   |-> IF Len(parts) >= 1 THEN parts[1] ELSE <<>>,
     name_parts |-> IF Len(parts) >= 1 THEN Tail(parts) ELSE <<>>]

\* `node_id, *name_parts = parts': ValueError when parts is empty.
Unpack(parts) ==
    [ok        |-> Len(parts) >= 1,
     node_id   |-> IF Len(parts) >= 1 THEN parts[1] ELSE <<>>,
     name_parts |-> IF Len(parts) >= 1 THEN Tail(parts) ELSE <<>>]

NeuronPrefix == <<"N", "e", "u", "r", "o", "n", " ">>

\* Keeps only the piece between the first and the second colon.
NodeNameFirstPart(node_id, name_parts) ==
    IF name_parts # <<>> THEN name_parts[1] ELSE NeuronPrefix \o node_id

\* name = ':'.join(name_parts) if name_parts else f"Neuron {node_id}"
NodeName(node_id, name_parts) ==
    IF name_parts # <<>> THEN join(<<":">>, name_parts)
    ELSE NeuronPrefix \o node_id

(***************************************************************************)
(* JSON values of a response body.                                         *)
(*   body    : not JSON at all ("invalid"), or a JSON value; only a JSON   *)
(*             object ("obj") has the method .get                          *)
(*   active  : the value of the activeNodes key                            *)
(*   entry   : one element of an activeNodes list                          *)
(***************************************************************************)
BareEntry(s) ==
    [t |-> "str", s |-> s, hasId |-> FALSE, id |-> <<>>,
     hasName |-> FALSE, name |-> <<>>]
ObjEntry(hasId, id, hasName, name) ==
    [t |-> "obj", s |-> <<>>, hasId |-> hasId, id |-> id,
     hasName |-> hasName, name |-> name]
ListEntry ==
    [t |-> "list", s |-> <<>>, hasId |-> FALSE, id |-> <<>>,
     hasName |-> FALSE, name |-> <<>>]

JNull    == [t |-> "null", n |-> 0, s |-> <<>>, v |-> <<>>]
JNum(n)  == [t |-> "num",  n |-> n, s |-> <<>>, v |-> <<>>]
JStr(s)  == [t |-> "str",  n |-> 0, s |-> s,    v |-> <<>>]
JList(v) == [t |-> "list", n |-> 0, s |-> <<>>, v |-> v]

NotJson        == [t |-> "invalid", hasActive |-> FALSE, active |-> JNull]
NonObject(t)   == [t |-> t,         hasActive |-> FALSE, active |-> JNull]
ObjWithout     == [t |-> "obj",     hasActive |-> FALSE, active |-> JNull]
ObjWith(av)    == [t |-> "obj",     hasActive |-> TRUE,  active |-> av]

\* result.get('activeNodes', default)
GetActive(result, default) ==
    IF result.hasActive THEN result.active ELSE default

\* Python truth value of a JSON value
Truthy(av) ==
    CASE av.t = "null" -> FALSE
      [] av.t = "num"  -> av.n # 0
      [] av.t = "str"  -> Len(av.s) > 0
      [] av.t = "list" -> Len(av.v) > 0

\* `x in av' for a string x: element equality on a list, substring on a
\* string; a number or None is not iterable (TypeError, see Iterable).
Iterable(av) == av.t \in {"str", "list"}
Contains(av, x) ==
    CASE av.t = "list" -> \E j \in 1..Len(av.v) : av.v[j].t = "str" /\ av.v[j].s = x
      [] av.t = "str"  -> \E j \in 1..(Len(av.s) + 1) :
                              /\ j + Len(x) - 1 <= Len(av.s)
                              /\ SubSeq(av.s, j, j + Len(x) - 1) = x
      [] OTHER         -> FALSE

\* set(av): TypeError when av is not iterable or holds a dict or a list
Hashable(av) ==
    /\ Iterable(av)
    /\ av.t = "list" => \A j \in 1..Len(av.v) : av.v[j].t = "str"
ToSet(av) ==
    CASE av.t = "list" -> {av.v[j].s : j \in {q \in 1..Len(av.v) : av.v[q].t = "str"}}
      [] av.t = "str"  -> {<<av.s[j]>> : j \in 1..Len(av.s)}
      [] OTHER         -> {}

\* The elements a for-loop over av visits (a string yields its characters).
Items(av) ==
    CASE av.t = "list" -> av.v
      [] av.t = "str"  -> [j \in 1..Len(av.s) |-> BareEntry(<<av.s[j]>>)]
      [] OTHER         -> <<>>

(***************************************************************************)
(* Exceptions: the classes each raised exception is an instance of.        *)
(***************************************************************************)
Bases(exc) ==
    CASE exc = "ConnectionError" -> {"ConnectionError", "RequestException", "OSError", "Exception"}
      [] exc = "Timeout"         -> {"Timeout", "RequestException", "OSError", "Exception"}
      [] exc = "JSONDecodeError" -> {"JSONDecodeError", "RequestException", "ValueError", "Exception"}
      [] exc = "AttributeError"  -> {"AttributeError", "Exception"}
      [] exc = "KeyError"        -> {"KeyError", "LookupError", "Exception"}
      [] exc = "TypeError"       -> {"TypeError", "Exception"}
      [] OTHER                   -> {}

\* A handler written `except ValueError'.
CaughtValueError(exc) == "ValueError" \in Bases(exc)
\* A handler written `except requests.RequestException'.
CaughtRequestException(exc) == "RequestException" \in Bases(exc)

\* `except Exception as e' of the three operations
Caught(exc) == "Exception" \in Bases(exc)

\* `except ValueError as e' around the activar branch of the main block
MainCaught(exc) == "ValueError" \in Bases(exc)

(***************************************************************************)
(* What the operations print.  A report is the lines printed by the body   *)
(* of the try block after the request, and the exception that ended it     *)
(* ("none" when it ran to its end).                                        *)
(***************************************************************************)
SinNombre == <<"S", "i", "n", " ", "n", "o", "m", "b", "r", "e">>

Report(lines, exc) == [lines |-> lines, exc |-> exc]

\* nodes = [{"id": id, "name": name} for id, name in node_data]
NodeDicts(node_data) ==
    [j \in 1..Len(node_data) |-> [id |-> node_data[j][1], name |-> node_data[j][2]]]

\* A request body that always says append = false.
ActivateDataNoAppend(node_data, append) ==
    [nodes |-> NodeDicts(node_data), append |-> FALSE]

\* data = {"nodes": nodes, "append": append}
ActivateData(node_data, append) ==
    [nodes |-> NodeDicts(node_data), append |-> append]

\* An error line that leaves the response body out.
HttpErrorLineNoText(status, text) ==
    [k |-> "http_error", status |-> status, text |-> NotJson, hasText |-> FALSE]

\* print(f"Error: {response.status_code} - {response.text}")
HttpErrorLine(status, text) ==
    [k |-> "http_error", status |-> status, text |-> text, hasText |-> TRUE]

\* print(f"Error de conexion: {e}")
ConnErrorLine(exc) == [k |-> "conn_error", exc |-> exc]

\* print(f" {mark} {node_id} - {node['name']}")
NodeLine(node, av) ==
    [k |-> "node", mark |-> Contains(av, node.id), id |-> node.id, name |-> node.name]

\* print(f"  {node['id']} - {node['name']}")
MissingLine(node) == [k |-> "missing", id |-> node.id, name |-> node.name]

\* [n for n in nodes if n['id'] in missing]
RECURSIVE Filter(_, _)
Filter(nodes, ids) ==
    IF nodes = <<>> THEN <<>>
    ELSE (IF Head(nodes).id \in ids THEN <<Head(nodes)>> ELSE <<>>)
         \o Filter(Tail(nodes), ids)

\* The 200 branch of activar_nodos.
ActivarReport(nodes, result) ==
    IF result.t = "invalid" THEN Report(<<>>, "JSONDecodeError")
    ELSE
    LET head == <<[k |-> "ok_header"], [k |-> "state", result |-> result]>> IN
    IF result.t # "obj" THEN Report(head, "AttributeError")
    ELSE
    LET active_nodes == GetActive(result, JNull) IN
    IF ~Truthy(active_nodes) THEN Report(head, "none")
    ELSE
    LET head2 == Append(head, [k |-> "active_header"]) IN
    IF ~Iterable(active_nodes) THEN Report(head2, "TypeError")
    ELSE
    LET marks == [j \in 1..Len(nodes) |-> NodeLine(nodes[j], active_nodes)] IN
    IF ~Hashable(active_nodes) THEN Report(head2 \o marks, "TypeError")
    ELSE
    LET activated_ids == ToSet(active_nodes)
        requested_ids == {nodes[j].id : j \in 1..Len(nodes)}
        missing       == requested_ids \ activated_ids
        missing_nodes == Filter(nodes, missing)
    IN  IF missing # {}
        THEN Report(head2 \o marks \o <<[k |-> "warn_header"]>>
                     \o [j \in 1..Len(missing_nodes) |-> MissingLine(missing_nodes[j])],
                    "none")
        ELSE Report(head2 \o marks, "none")

\* Numbers the entries from 0, as enumerate does.
StatusEntryLineFromZero(i, node) ==
    [k    |-> "entry",
     idx  |-> i,
     id   |-> IF node.t = "obj" THEN node.id ELSE node.s,
     name |-> IF node.t = "obj" /\ node.hasName THEN node.name ELSE SinNombre]

\* One iteration of `for i, node in enumerate(active_nodes)' (i from 0).
StatusEntryLine(i, node) ==
    [k    |-> "entry",
     idx  |-> i + 1,
     id   |-> IF node.t = "obj" THEN node.id ELSE node.s,
     name |-> IF node.t = "obj" /\ node.hasName THEN node.name ELSE SinNombre]

\* node['id'] raises KeyError on a dict without the key
EntryFails(node) == node.t = "obj" /\ ~node.hasId

\* The 200 branch of verificar_estado.
EstadoReport(result) ==
    IF result.t = "invalid" THEN Report(<<>>, "JSONDecodeError")
    ELSE IF result.t # "obj" THEN Report(<<>>, "AttributeError")
    ELSE
    LET active_nodes == GetActive(result, JList(<<>>))
        head == <<[k |-> "status_header"]>>
        tail == <<[k |-> "full_header"], [k |-> "body", result |-> result]>>
    IN
    IF ~Truthy(active_nodes) THEN Report(head \o <<[k |-> "no_active"]>> \o tail, "none")
    ELSE IF active_nodes.t = "num" THEN Report(head, "TypeError")
    ELSE
    LET items == Items(active_nodes)
        bad   == {j \in 1..Len(items) : EntryFails(items[j])}
        stop  == IF bad = {} THEN Len(items) + 1
                 ELSE CHOOSE j \in bad : \A q \in bad : j <= q
        count == <<[k |-> "count", n |-> Len(items)]>>
        shown == [j \in 1..(stop - 1) |-> StatusEntryLine(j - 1, items[j])]
    IN  IF bad # {} THEN Report(head \o count \o shown, "KeyError")
        ELSE Report(head \o count \o shown \o tail, "none")

(***************************************************************************)
(* The three operations, from the request to the end of the try statement. *)
(* A response is a transport failure (requests raised, no response object) *)
(* or an HTTP answer with a status code and a body.                        *)
(***************************************************************************)
\* The try block of activar_nodos after requests.post
activar_nodos_try(nodes, resp) ==
    IF resp.kind = "transport" THEN Report(<<>>, resp.exc)
    ELSE IF resp.status = 200 THEN ActivarReport(nodes, resp.body)
    ELSE Report(<<HttpErrorLine(resp.status, resp.body)>>, "none")

\* The try block of reiniciar after requests.post
reiniciar_try(resp) ==
    IF resp.kind = "transport" THEN Report(<<>>, resp.exc)
    ELSE IF resp.status = 200 THEN Report(<<[k |-> "reset_ok"]>>, "none")
    ELSE Report(<<HttpErrorLine(resp.status, resp.body)>>, "none")

\* The try block of verificar_estado after requests.get
verificar_estado_try(resp) ==
    IF resp.kind = "transport" THEN Report(<<>>, resp.exc)
    ELSE IF resp.status = 200 THEN EstadoReport(resp.body)
    ELSE Report(<<HttpErrorLine(resp.status, resp.body)>>, "none")

Endpoint(server_url, path) == [base |-> server_url, path |-> path]

\* A reset sent to the activation endpoint.
ReiniciarRequestWrongPath(server_url) ==
    [method |-> "POST", endpoint |-> Endpoint(server_url, "/activate"),
     hasBody |-> FALSE, data |-> ActivateData(<<>>, FALSE)]

\* requests.post(endpoint, json=data) with endpoint = f"{server_url}/activate"
ActivarRequest(server_url, data) ==
    [method |-> "POST", endpoint |-> Endpoint(server_url, "/activate"),
     hasBody |-> TRUE, data |-> data]

\* requests.post(endpoint) with endpoint = f"{server_url}/reset"
ReiniciarRequest(server_url) ==
    [method |-> "POST", endpoint |-> Endpoint(server_url, "/reset"),
     hasBody |-> FALSE, data |-> ActivateData(<<>>, FALSE)]

\* requests.get(endpoint) with endpoint = f"{server_url}/status"
EstadoRequest(server_url) ==
    [method |-> "GET", endpoint |-> Endpoint(server_url, "/status"),
     hasBody |-> FALSE, data |-> ActivateData(<<>>, FALSE)]

(***************************************************************************)
(* The command line.  An invocation says which subcommand word was given   *)
(* ("none": no word, "otro": a word that is no subcommand), whether        *)
(* --nodes and --append were given, the node tokens and the server URL.    *)
(***************************************************************************)
Subcommands == {"activar", "reiniciar", "estado"}

NoArgs == [comando |-> "None", nodes |-> <<>>, append |-> FALSE,
           server |-> DEFAULT_SERVER_URL]

\* argparse with add_subparsers(required=True): a missing subcommand is a
\* usage error.
parse_argsSubRequired(a) ==
    IF \/ a.cmd \notin Subcommands
       \/ a.cmd = "activar" /\ (~a.hasNodes \/ a.nodes = <<>>)
       \/ a.cmd # "activar" /\ (a.hasNodes \/ a.append)
    THEN [ok |-> FALSE, args |-> NoArgs]
    ELSE [ok |-> TRUE,
          args |-> [comando |-> a.cmd,
                    nodes |-> a.nodes, append |-> a.append, server |-> a.server]]

\* parser.parse_args(): a usage error (argparse prints it and exits with
\* status 2) on an unknown subcommand, on 'activar' without --nodes or with
\* --nodes and no value (nargs="+", required=True), and on --nodes or
\* --append outside 'activar'; otherwise the namespace, comando being None
\* when no subcommand was given.
parse_args(a) ==
    IF \/ a.cmd \notin (Subcommands \cup {"none"})
       \/ a.cmd = "activar" /\ (~a.hasNodes \/ a.nodes = <<>>)
       \/ a.cmd # "activar" /\ (a.hasNodes \/ a.append)
    THEN [ok |-> FALSE, args |-> NoArgs]
    ELSE [ok |-> TRUE,
          args |-> [comando |-> IF a.cmd = "none" THEN "None" ELSE a.cmd,
                    nodes |-> a.nodes, append |-> a.append, server |-> a.server]]

(***************************************************************************)
(* State of one process invocation.                                        *)
(***************************************************************************)
VARIABLES
    argv,        \* the command line
    args,        \* the namespace parse_args returned
    pc,          \* position of the main block
    idx,         \* 1-based position of the token loop in args.nodes
    node_data,   \* the (id, name) pairs parsed so far
    called,      \* the operation the main block has called ("none" before)
    requests,    \* the HTTP requests issued so far, in order
    response,    \* what came back for the request
    out,         \* the printed lines, in order
    propagated,  \* the exception that left the operation ("none": nothing)
    exitCode     \* exit status of the process, -1 while it runs

vars == <<argv, args, pc, idx, node_data, called, requests, response, out,
          propagated, exitCode>>

NoResponse == [kind |-> "none", exc |-> "none", status |-> 0, body |-> NotJson]

(***************************************************************************)
(* Inputs.                                                                 *)
(***************************************************************************)
Chars == {"1", ":"}
Tokens == SeqsUpTo(Chars, MaxTokLen)
TokenLists == SeqsUpTo(Tokens, MaxTokens) \ {<<>>}

Servers == {DEFAULT_SERVER_URL, "http://brain.example:8080/api"}

Invocation(server, cmd, hasNodes, nodes, append) ==
    [server |-> server, cmd |-> cmd, hasNodes |-> hasNodes, nodes |-> nodes,
     append |-> append]

\* Every 'activar' command line over the bounded tokens.
ParseInvocations ==
    {Invocation(DEFAULT_SERVER_URL, "activar", TRUE, n, a) :
        n \in TokenLists, a \in BOOLEAN}

SampleNodeLists ==
    { <<<<"1">>>>,
      <<<<>>>>,
      <<<<"1", ":", "A">>, <<"3", ":", "C">>>>,
      <<<<"1", ":", "A">>, <<"2", ":", "B">>>>,
      <<<<"2", ":", "B">>, <<"3">>, <<"2", ":", "B">>>> }

\* Command lines of every kind: no subcommand, an unknown one, each
\* subcommand, 'activar' without --nodes, and options where they do not
\* belong.
Invocations ==
    {Invocation(s, c, FALSE, <<>>, FALSE) :
        s \in Servers, c \in {"none", "otro", "activar", "reiniciar", "estado"}}
    \cup {Invocation(DEFAULT_SERVER_URL, "activar", TRUE, n, a) :
        n \in SampleNodeLists \cup {<<>>}, a \in BOOLEAN}
    \cup {Invocation(DEFAULT_SERVER_URL, "reiniciar", FALSE, <<>>, TRUE),
          Invocation(DEFAULT_SERVER_URL, "estado", TRUE, <<<<"1">>>>, FALSE)}

Entries ==
    {BareEntry(<<"1">>), BareEntry(<<"2">>), ListEntry}
    \cup {ObjEntry(TRUE, <<"1">>, n, IF n THEN <<"A">> ELSE <<>>) : n \in BOOLEAN}
    \cup {ObjEntry(FALSE, <<>>, n, IF n THEN <<"A">> ELSE <<>>) : n \in BOOLEAN}

ActiveValues ==
    {JNull, JNum(0), JNum(5), JStr(<<>>), JStr(<<"1", "2">>)}
    \cup {JList(v) : v \in SeqsUpTo(Entries, MaxActive)}

OkBodies ==
    {NotJson, NonObject("null"), NonObject("list"), NonObject("str"), ObjWithout}
    \cup {ObjWith(av) : av \in ActiveValues}

ErrorStatuses == {201, 404, 500}
ErrorBodies == {NotJson, ObjWithout}

HttpResponses ==
    {[kind |-> "http", exc |-> "none", status |-> 200, body |-> b] : b \in OkBodies}
    \cup {[kind |-> "http", exc |-> "none", status |-> st, body |-> b] :
            st \in ErrorStatuses, b \in ErrorBodies}

TransportFailures ==
    {[kind |-> "transport", exc |-> e, status |-> 0, body |-> NotJson] :
        e \in {"ConnectionError", "Timeout"}}

(***************************************************************************)
(* Initial states.                                                         *)
(***************************************************************************)
InitRest ==
    /\ args = NoArgs
    /\ pc = "parse_args"
    /\ idx = 1
    /\ node_data = <<>>
    /\ called = "none"
    /\ requests = <<>>
    /\ response = NoResponse
    /\ out = <<>>
    /\ propagated = "none"
    /\ exitCode = -1

Init == argv \in Invocations /\ InitRest

InitParse == argv \in ParseInvocations /\ InitRest

(***************************************************************************)
(* Actions of the main block.                                              *)
(***************************************************************************)
\* args = parser.parse_args()
ParseArgs ==
    /\ pc = "parse_args"
    /\ LET r == parse_args(argv) IN
       IF r.ok
       THEN /\ args' = r.args
            /\ pc' = "dispatch"
            /\ UNCHANGED <<out, exitCode>>
       ELSE /\ out' = Append(out, [k |-> "usage_error"])
            /\ exitCode' = 2
            /\ pc' = "exited"
            /\ UNCHANGED args
    /\ UNCHANGED <<argv, idx, node_data, called, requests, response, propagated>>

\* if not args.comando: parser.print_help(); sys.exit(1)
NoCommand ==
    /\ pc = "dispatch"
    /\ args.comando = "None"
    /\ out' = Append(out, [k |-> "help"])
    /\ exitCode' = 1
    /\ pc' = "exited"
    /\ UNCHANGED <<argv, args, idx, node_data, called, requests, response, propagated>>

\* if args.comando == "activar": node_data = []
ActivarBegin ==
    /\ pc = "dispatch"
    /\ args.comando = "activar"
    /\ node_data' = <<>>
    /\ idx' = 1
    /\ pc' = "parse_nodes"
    /\ UNCHANGED <<argv, args, called, requests, response, out, propagated, exitCode>>

\* One iteration of `for node_str in args.nodes'; a ValueError of the
\* unpacking goes to the except clause of the main block.
ParseNode ==
    /\ pc = "parse_nodes"
    /\ idx <= Len(args.nodes)
    /\ LET u == Unpack(split(args.nodes[idx], ":")) IN
       IF u.ok
       THEN /\ node_data' = Append(node_data, <<u.node_id, NodeName(u.node_id, u.name_parts)>>)
            /\ idx' = idx + 1
            /\ UNCHANGED <<pc, out, exitCode>>
       ELSE /\ out' = Append(out, [k |-> "format_error"])
            /\ exitCode' = 1
            /\ pc' = "exited"
            /\ UNCHANGED <<node_data, idx>>
    /\ UNCHANGED <<argv, args, called, requests, response, propagated>>

\* activar_nodos(node_data, args.append, args.server) up to requests.post
ActivarSend ==
    /\ pc = "parse_nodes"
    /\ idx > Len(args.nodes)
    /\ LET data == ActivateData(node_data, args.append)
           req  == ActivarRequest(args.server, data)
       IN  /\ out' = out \o <<[k |-> "sending", endpoint |-> req.endpoint],
                              [k |-> "data", data |-> data]>>
           /\ requests' = Append(requests, req)
    /\ called' = "activar_nodos"
    /\ pc' = "await"
    /\ UNCHANGED <<argv, args, idx, node_data, response, propagated, exitCode>>

\* reiniciar(args.server) up to requests.post
ReiniciarSend ==
    /\ pc = "dispatch"
    /\ args.comando = "reiniciar"
    /\ LET req == ReiniciarRequest(args.server)
       IN  /\ out' = Append(out, [k |-> "sending", endpoint |-> req.endpoint])
           /\ requests' = Append(requests, req)
    /\ called' = "reiniciar"
    /\ pc' = "await"
    /\ UNCHANGED <<argv, args, idx, node_data, response, propagated, exitCode>>

\* verificar_estado(args.server) up to requests.get
EstadoSend ==
    /\ pc = "dispatch"
    /\ args.comando = "estado"
    /\ LET req == EstadoRequest(args.server)
       IN  /\ out' = Append(out, [k |-> "sending", endpoint |-> req.endpoint])
           /\ requests' = Append(requests, req)
    /\ called' = "verificar_estado"
    /\ pc' = "await"
    /\ UNCHANGED <<argv, args, idx, node_data, response, propagated, exitCode>>

\* The server answers the request.
ServerAnswers ==
    /\ pc = "await"
    /\ \E r \in HttpResponses : response' = r
    /\ pc' = "handle"
    /\ UNCHANGED <<argv, args, idx, node_data, called, requests, out, propagated, exitCode>>

\* The request fails before any response arrives.
TransportFails ==
    /\ pc = "await"
    /\ \E r \in TransportFailures : response' = r
    /\ pc' = "handle"
    /\ UNCHANGED <<argv, args, idx, node_data, called, requests, out, propagated, exitCode>>

\* The rest of an operation and of the process: the report is printed; an
\* exception is printed by the except clause of the operation when that
\* clause catches it, and the main block ends (exit status 0).  An exception
\* that leaves the operation reaches the except ValueError clause of the
\* main block when the call is inside it (activar), else the interpreter
\* (traceback, exit status 1).
Finish(report, insideMainTry) ==
    IF report.exc = "none"
    THEN /\ out' = out \o report.lines
         /\ exitCode' = 0
         /\ UNCHANGED propagated
    ELSE IF Caught(report.exc)
    THEN /\ out' = out \o report.lines \o <<ConnErrorLine(report.exc)>>
         /\ exitCode' = 0
         /\ UNCHANGED propagated
    ELSE /\ propagated' = report.exc
         /\ exitCode' = 1
         /\ out' = out \o report.lines \o
                   <<[k |-> IF insideMainTry /\ MainCaught(report.exc)
                            THEN "format_error" ELSE "traceback"]>>

ActivarFinish ==
    /\ pc = "handle"
    /\ called = "activar_nodos"
    /\ Finish(activar_nodos_try(NodeDicts(node_data), response), TRUE)
    /\ pc' = "exited"
    /\ UNCHANGED <<argv, args, idx, node_data, called, requests, response>>

ReiniciarFinish ==
    /\ pc = "handle"
    /\ called = "reiniciar"
    /\ Finish(reiniciar_try(response), FALSE)
    /\ pc' = "exited"
    /\ UNCHANGED <<argv, args, idx, node_data, called, requests, response>>

EstadoFinish ==
    /\ pc = "handle"
    /\ called = "verificar_estado"
    /\ Finish(verificar_estado_try(response), FALSE)
    /\ pc' = "exited"
    /\ UNCHANGED <<argv, args, idx, node_data, called, requests, response>>

\* The final else of the main block (an args.comando that is none of the
\* three subcommands) has no action: parse_args rejects such a word.
Next ==
    \/ ParseArgs
    \/ NoCommand
    \/ ActivarBegin
    \/ ParseNode
    \/ ActivarSend
    \/ ReiniciarSend
    \/ EstadoSend
    \/ ServerAnswers
    \/ TransportFails
    \/ ActivarFinish
    \/ ReiniciarFinish
    \/ EstadoFinish

Spec == Init /\ [][Next]_vars

\* The 'activar' command from the command line to the request, over every
\* bounded list of tokens.
NextParse ==
    \/ ParseArgs
    \/ ActivarBegin
    \/ ParseNode
    \/ ActivarSend

SpecParse == InitParse /\ [][NextParse]_vars

(***************************************************************************)
(* Properties.                                                             *)
(***************************************************************************)
Lines(kind) == SelectSeq(out, LAMBDA l : l.k = kind)
Printed(kind) == Len(Lines(kind))
ErrorLines ==
    Printed("http_error") + Printed("conn_error") + Printed("traceback")
    + Printed("format_error") + Printed("usage_error")
SuccessLines == Printed("ok_header") + Printed("reset_ok") + Printed("status_header")

Done == pc = "exited"
Got200 == response.kind = "http" /\ response.status = 200
HasColon(t) == \E j \in 1..Len(t) : t[j] = ":"

\* (id, name) is what the token t stands for: t is id, a colon, name, with no
\* colon in id; or t has no colon, is the id, and the name is the default.
PairOfToken(t, id, name) ==
    IF HasColon(t)
    THEN ~HasColon(id) /\ t = id \o <<":">> \o name
    ELSE id = t /\ name = NeuronPrefix \o t

\* C1: every token parsed so far gave the id before its first colon and, if
\* it has a colon, the name after that first colon verbatim (later colons
\* kept), otherwise the name "Neuron " followed by the id.
C1_TokenParsing ==
    \A j \in 1..Len(node_data) :
        PairOfToken(argv.nodes[j], node_data[j][1], node_data[j][2])

C1_Witness ==
    /\ pc = "await"
    /\ \E j \in 1..Len(node_data) :
          HasColon(node_data[j][2]) /\ Len(node_data[j][1]) > 0
    /\ \E j \in 1..Len(node_data) :
          ~HasColon(argv.nodes[j]) /\ Len(argv.nodes[j]) > 0

\* C8: the format-error path is never taken: whatever the tokens, no format
\* error is printed, the process does not exit during parsing, every token
\* handled so far has its pair, and when the loop ends activar_nodos is
\* called with one pair per token.
C8_FormatErrorUnreachable ==
    /\ Printed("format_error") = 0
    /\ exitCode # 1
    /\ pc # "exited"
    /\ pc = "parse_nodes" => Len(node_data) = idx - 1
    /\ pc = "await" => called = "activar_nodos" /\ Len(node_data) = Len(argv.nodes)

C8_Witness ==
    /\ pc = "await"
    /\ called = "activar_nodos"
    /\ \E j \in 1..Len(argv.nodes) : argv.nodes[j] = <<>>
    /\ \E j \in 1..Len(argv.nodes) :
          Len(argv.nodes[j]) > 1 /\ \A q \in 1..Len(argv.nodes[j]) : argv.nodes[j][q] = ":"

\* C9: the body of the activation request has one {id, name} record per
\* command-line token, in token order, duplicates kept, and its append field
\* is the --append flag.
C9_RequestBody ==
    pc = "await" =>
        /\ Len(requests) = 1
        /\ requests[1].hasBody
        /\ Len(requests[1].data.nodes) = Len(argv.nodes)
        /\ \A j \in 1..Len(argv.nodes) :
              PairOfToken(argv.nodes[j], requests[1].data.nodes[j].id,
                          requests[1].data.nodes[j].name)
        /\ requests[1].data.append = argv.append

C9_Witness ==
    /\ pc = "await"
    /\ Len(argv.nodes) = 2
    /\ argv.nodes[1] = argv.nodes[2]
    /\ argv.append
    /\ Len(requests[1].data.nodes) = 2
    /\ requests[1].data.append

\* The ids of an activeNodes value that is absent or a list of plain ids.
PlainIds(body) ==
    IF body.hasActive
    THEN {body.active.v[j].s : j \in 1..Len(body.active.v)}
    ELSE {}
PlainActive(body) ==
    /\ body.t = "obj"
    /\ body.hasActive =>
          /\ body.active.t = "list"
          /\ \A j \in 1..Len(body.active.v) : body.active.v[j].t = "str"

\* C2: after activar_nodos got a 200 response whose activeNodes is absent or
\* a list of ids (the empty list included), each requested node is reported
\* once, marked exactly when its id is in activeNodes, and when some
\* requested id is not in activeNodes the warning section lists exactly the
\* requested nodes with such an id.
C2_ActivationReport ==
    (Done /\ called = "activar_nodos" /\ Got200 /\ PlainActive(response.body)) =>
        LET nodes   == NodeDicts(node_data)
            active  == PlainIds(response.body)
            shown   == Lines("node")
            missing == Lines("missing")
            absent  == SelectSeq(nodes, LAMBDA n : n.id \notin active)
        IN  /\ Len(shown) = Len(nodes)
            /\ \A j \in 1..Len(nodes) :
                  /\ shown[j].id = nodes[j].id
                  /\ shown[j].name = nodes[j].name
                  /\ shown[j].mark = (nodes[j].id \in active)
            /\ Len(absent) > 0 =>
                  /\ Printed("warn_header") = 1
                  /\ Len(missing) = Len(absent)
                  /\ \A j \in 1..Len(absent) :
                        missing[j].id = absent[j].id /\ missing[j].name = absent[j].name

\* C3: after a response with a status other than 200, the operation has
\* printed exactly one error line, carrying the status code and the raw
\* body, no success confirmation, nothing left the operation, exit status 0.
C3_Non200 ==
    (Done /\ called # "none" /\ response.kind = "http" /\ response.status # 200) =>
        /\ ErrorLines = 1
        /\ Printed("http_error") = 1
        /\ Lines("http_error")[1].status = response.status
        /\ Lines("http_error")[1].hasText
        /\ Lines("http_error")[1].text = response.body
        /\ SuccessLines = 0
        /\ propagated = "none"
        /\ exitCode = 0

C3_Witness ==
    /\ Done
    /\ called = "reiniciar"
    /\ response.kind = "http"
    /\ response.status = 500
    /\ Printed("http_error") = 1

\* C4: after a transport failure the operation has printed exactly one
\* connection-error line, nothing left the operation, the request was sent
\* once and the exit status is 0.
C4_TransportFailure ==
    (Done /\ response.kind = "transport") =>
        /\ ErrorLines = 1
        /\ Printed("conn_error") = 1
        /\ Lines("conn_error")[1].exc = response.exc
        /\ propagated = "none"
        /\ Len(requests) = 1
        /\ exitCode = 0

C4_Witness ==
    /\ Done
    /\ called = "verificar_estado"
    /\ response.kind = "transport"
    /\ response.exc = "Timeout"
    /\ Printed("conn_error") = 1

StatusActive(body) == IF body.hasActive THEN body.active ELSE JList(<<>>)
WellShapedStatus(body) ==
    /\ body.t = "obj"
    /\ StatusActive(body).t = "list"
    /\ \A j \in 1..Len(StatusActive(body).v) :
          LET e == StatusActive(body).v[j] IN e.t = "str" \/ (e.t = "obj" /\ e.hasId)

\* C6: after verificar_estado got a 200 response whose body is a mapping
\* with activeNodes absent or a list of ids and objects with an id, it has
\* printed one line per entry, in order, numbered from 1, showing (entry,
\* 'Sin nombre') for an id, (id, name) for an object and (id, 'Sin nombre')
\* for an object without name; the no-active-nodes message instead when the
\* list is absent or empty; and last the full body.
C6_StatusReport ==
    (Done /\ called = "verificar_estado" /\ Got200 /\ WellShapedStatus(response.body)) =>
        LET entries == StatusActive(response.body).v
            shown   == Lines("entry")
        IN  /\ Len(shown) = Len(entries)
            /\ \A j \in 1..Len(entries) :
                  /\ shown[j].idx = j
                  /\ entries[j].t = "str" =>
                        shown[j].id = entries[j].s /\ shown[j].name = SinNombre
                  /\ (entries[j].t = "obj" /\ entries[j].hasName) =>
                        shown[j].id = entries[j].id /\ shown[j].name = entries[j].name
                  /\ (entries[j].t = "obj" /\ ~entries[j].hasName) =>
                        shown[j].id = entries[j].id /\ shown[j].name = SinNombre
            /\ Printed("no_active") = (IF Len(entries) = 0 THEN 1 ELSE 0)
            /\ Printed("count") = (IF Len(entries) = 0 THEN 0 ELSE 1)
            /\ Len(out) >= 2
            /\ out[Len(out) - 1].k = "full_header"
            /\ out[Len(out)].k = "body"
            /\ out[Len(out)].result = response.body
            /\ ErrorLines = 0

C6_Witness ==
    /\ Done
    /\ called = "verificar_estado"
    /\ Got200
    /\ response.body.t = "obj"
    /\ response.body.hasActive
    /\ response.body.active = JList(<<BareEntry(<<"2">>), ObjEntry(TRUE, <<"1">>, FALSE, <<>>)>>)
    /\ Printed("entry") = 2

\* The request the subcommand c sends to the server url.
RequestOf(c, url, req) ==
    /\ req.endpoint.base = url
    /\ c = "activar"   => req.method = "POST" /\ req.endpoint.path = "/activate"
    /\ c = "reiniciar" => req.method = "POST" /\ req.endpoint.path = "/reset"
    /\ c = "estado"    => req.method = "GET"  /\ req.endpoint.path = "/status"

\* C7 as stated: at most one request, none without a subcommand and exactly
\* one, of the subcommand's kind, whenever a subcommand is given.
C7_OneRequestAsStated ==
    /\ Len(requests) <= 1
    /\ Done => IF argv.cmd \in Subcommands
               THEN Len(requests) = 1 /\ RequestOf(argv.cmd, argv.server, requests[1])
               ELSE requests = <<>>

\* C7 amended: at most one request is ever issued; a finished process has
\* issued exactly one, of the subcommand's kind, when a subcommand was given
\* and the argument parser accepted the command line, and none otherwise;
\* no second request follows a non-200 response or a transport failure.
C7_OneRequest ==
    /\ Len(requests) <= 1
    /\ pc \in {"await", "handle"} => Len(requests) = 1
    /\ Done => IF argv.cmd \in Subcommands /\ Printed("usage_error") = 0
               THEN Len(requests) = 1 /\ RequestOf(argv.cmd, argv.server, requests[1])
               ELSE requests = <<>>

C7_Witness ==
    /\ Done
    /\ called = "activar_nodos"
    /\ response.kind = "transport"
    /\ Len(requests) = 1
    /\ requests[1].endpoint.path = "/activate"

\* A 200 body the operation op cannot process: not JSON, not a mapping, or
\* an activeNodes that is a non-zero number, that (verificar_estado) holds
\* an object without id, or that (activar_nodos) holds an entry that is no
\* plain id.
Unprocessable(op, body) ==
    \/ body.t # "obj"
    \/ /\ body.hasActive
       /\ \/ body.active.t = "num" /\ body.active.n # 0
          \/ /\ body.active.t = "list"
             /\ \E j \in 1..Len(body.active.v) :
                   IF op = "verificar_estado"
                   THEN body.active.v[j].t = "obj" /\ ~body.active.v[j].hasId
                   ELSE body.active.v[j].t # "str"

\* C10: a 200 response whose body activar_nodos or verificar_estado cannot
\* process does not make the operation raise: exactly one connection-error
\* line is printed, as the last line, and the exit status is 0.
C10_BadBodyCaught ==
    (/\ Done
     /\ called \in {"activar_nodos", "verificar_estado"}
     /\ Got200
     /\ Unprocessable(called, response.body)) =>
        /\ propagated = "none"
        /\ ErrorLines = 1
        /\ Printed("conn_error") = 1
        /\ out[Len(out)].k = "conn_error"
        /\ exitCode = 0

C10_Witness ==
    /\ Done
    /\ called = "activar_nodos"
    /\ Got200
    /\ response.body.t = "obj"
    /\ response.body.hasActive
    /\ response.body.active.t = "list"
    /\ \E j \in 1..Len(response.body.active.v) : response.body.active.v[j].t = "obj"
    /\ Printed("ok_header") = 1
    /\ Printed("conn_error") = 1

====
